---- MODULE Spec2Model ----
(***************************************************************************)
(* dag_executor: random connected weighted DAG generation (WeightedDAG)    *)
(* and its asyncio execution (WorkflowExecutor).                           *)
(*                                                                         *)
(* The model follows one driver run, as in test.py:                        *)
(*   dag = WeightedDAG(num_nodes, edge_probability)                        *)
(*   executor = WorkflowExecutor(dag, strategy); await executor.run()      *)
(*                                                                         *)
(* random.* calls and the iteration order of Python sets are               *)
(* nondeterministic choices.  The asyncio event loop runs one coroutine    *)
(* at a time; a coroutine keeps the processor (cpu) until it suspends in   *)
(* strategy.execute or asyncio.sleep, or ends.  Which ready task the loop  *)
(* resumes next is a nondeterministic choice (it depends on sleep times).  *)
(***************************************************************************)
EXTENDS Integers, Sequences, FiniteSets, TLC

VARIABLES
    pc,               \* position of the driver: which call runs next
    num_nodes,        \* WeightedDAG.num_nodes
    edge_probability, \* WeightedDAG.edge_probability, in halves: 0, 1 (= 0.5), 2 (= 1.0)
    ordering,         \* _generate_connected_dag: the shuffled ordering (local)
    reachable,        \* _generate_connected_dag: reachable (local)
    unreachable,      \* _generate_connected_dag: nodes the repair loop has still to visit
    G,                \* _generate_connected_dag: G (local), nodes are integers
    graph,            \* WeightedDAG.graph: [nodes, edges: (u, v) -> duration]
    source,           \* WeightedDAG.source
    lang_schema,      \* WeightedDAG.lang_schema
    schema,           \* WeightedDAG.schema: node -> list of (successor, duration)
    strategy,         \* WorkflowExecutor.strategy (which class)
    results,          \* WorkflowExecutor.results: node -> result string
    timings,          \* WorkflowExecutor.timings: node -> elapsed
    active_tasks,     \* WorkflowExecutor.active_tasks
    max_parallelism,  \* WorkflowExecutor.max_parallelism
    child_inputs,     \* WorkflowExecutor.child_inputs: node -> list of results
    in_degrees,       \* WorkflowExecutor.in_degrees
    lock,             \* WorkflowExecutor.lock: "free" or the task holding it
    tasks,            \* node -> the _run_node_task coroutines made for it, in order
    cpu,              \* the coroutine the event loop is running: "loop" when none
    wall,             \* [start, end]: whether wall_start_time / wall_end_time are set
    started,          \* history: node -> how often its _run_node_task began
    written,          \* history: node -> how often results[node] was assigned
    previous          \* history: what the run of the executor made before this one left

genVars  == <<num_nodes, edge_probability, ordering, reachable, unreachable, G, graph, source,
              lang_schema, schema>>
execVars == <<strategy, results, timings, active_tasks, max_parallelism, child_inputs,
              in_degrees, lock, tasks, cpu, wall, started, written>>
vars     == <<pc, genVars, execVars, previous>>

(* Bounds of the model. *)
MaxNodes == 3
MaxDuration == 2

-----------------------------------------------------------------------------
(* Graph helpers: what the code asks of networkx.                          *)

EmptyMap == [x \in {} |-> 0]

\* nx.DiGraph()
EmptyGraph == [nodes |-> {}, edges |-> EmptyMap]

EdgeSet(g) == DOMAIN g.edges

\* G.add_edge(u, v, duration=d): adds u and v as nodes, sets or overwrites the edge
AddEdge(g, u, v, d) ==
    [nodes |-> g.nodes \cup {u, v},
     edges |-> [e \in EdgeSet(g) \cup {<<u, v>>} |->
                   IF e = <<u, v>> THEN d ELSE g.edges[e]]]

\* G.remove_edge(u, v)
RemoveEdge(g, u, v) ==
    [nodes |-> g.nodes,
     edges |-> [e \in EdgeSet(g) \ {<<u, v>>} |-> g.edges[e]]]

Successors(g, n)   == {e[2] : e \in {x \in EdgeSet(g) : x[1] = n}}
Predecessors(g, n) == {e[1] : e \in {x \in EdgeSet(g) : x[2] = n}}
InDegree(g, n)     == Cardinality(Predecessors(g, n))

\* nodes that a path of at least one edge leads to from the nodes of `from`
RECURSIVE ReachFrom(_, _, _)
ReachFrom(g, from, seen) ==
    LET next == UNION {Successors(g, n) : n \in from} \ seen
    IN  IF next = {} THEN seen ELSE ReachFrom(g, next, seen \cup next)

Reach1(g, n) == ReachFrom(g, {n}, {})

\* nx.descendants(G, n): the nodes reachable from n, n itself left out
Descendants(g, n) == Reach1(g, n) \ {n}

\* nx.is_directed_acyclic_graph(G)
IsDirectedAcyclicGraph(g) == \A n \in g.nodes : n \notin Reach1(g, n)

-----------------------------------------------------------------------------
(* WeightedDAG                                                             *)

\* random.shuffle(ordering): every arrangement of range(num_nodes)
Orderings(n) ==
    {f \in [1..n -> 0..(n - 1)] : \A i, j \in 1..n : f[i] = f[j] => i = j}

\* the pairs (i, j) of the double loop of step 2, as pairs of nodes
ForwardPairs(ord) ==
    {<<ord[p[1]], ord[p[2]]>> : p \in {q \in (1..Len(ord)) \X (1..Len(ord)) : q[1] < q[2]}}

\* edge_probability is only ever compared with random.random(), which lies in
\* [0, 1): the test never holds for 0, always holds for 1, and can go either way
\* for every value between, for which one half stands
Probabilities == {0, 1, 2}

\* the sets of pairs for which `random.random() < edge_probability` can hold
EdgeChoices(pairs, p) ==
    IF p <= 0 THEN {{}}
    ELSE IF p >= 2 THEN {pairs}
    ELSE SUBSET pairs

\* f"node_{n}"
Label(n) == "node_" \o ToString(n)

Virtual == "virtual"

\* the forward edge is kept without the acyclicity test
SpliceUnchecked(g, node, cands, d) ==
    IF cands = {} THEN {[graph |-> g, inserted |-> FALSE]}
    ELSE {[graph |-> AddEdge(g, node, target, d), inserted |-> TRUE] : target \in cands}

\* no splice is made: the node is left as it is
SpliceNothing(g, node, cands, d) == {[graph |-> g, inserted |-> FALSE]}

\* only node -> target is tried, and only against the first candidate: the reverse
\* attempt is missing and the loop is left after one round
SpliceFirstForwardOnly(g, node, cands, d) ==
    IF cands = {} THEN {[graph |-> g, inserted |-> FALSE]}
    ELSE {LET g1 == AddEdge(g, node, target, d)
          IN  IF IsDirectedAcyclicGraph(g1)
              THEN [graph |-> g1, inserted |-> TRUE]
              ELSE [graph |-> g, inserted |-> FALSE]
          : target \in cands}

\* the inner loop of step 3 for one node: every result that `for target in reachable`
\* can end with, over the orders in which a Python set can be visited (cands are the
\* candidates not yet tried).  Each add_edge draws its own random duration; an edge
\* that is removed again takes its duration with it, so d stands for the draw of the
\* one edge that stays.
RECURSIVE Splice(_, _, _, _)
Splice(g, node, cands, d) ==
    IF cands = {} THEN {[graph |-> g, inserted |-> FALSE]}
    ELSE UNION {
           LET g1 == AddEdge(g, node, target, d)
           IN  IF IsDirectedAcyclicGraph(g1)
               THEN {[graph |-> g1, inserted |-> TRUE]}
               ELSE LET g2 == AddEdge(RemoveEdge(g1, node, target), target, node, d)
                    IN  IF IsDirectedAcyclicGraph(g2)
                        THEN {[graph |-> g2, inserted |-> TRUE]}
                        ELSE Splice(RemoveEdge(g2, target, node), node, cands \ {target}, d)
           : target \in cands}

\* nx.relabel_nodes(G, lambda n: f"node_{n}")
RelabelNodes(g) ==
    [nodes |-> {Label(n) : n \in g.nodes},
     edges |-> [e \in {<<Label(x[1]), Label(x[2])>> : x \in EdgeSet(g)} |->
                   LET x == CHOOSE y \in EdgeSet(g) : <<Label(y[1]), Label(y[2])>> = e
                   IN  g.edges[x]]]

\* _get_source_node: sources = [n for n in graph.nodes if in_degree(n) == 0]
Sources(g) == {n \in g.nodes : InDegree(g, n) = 0}

\* the first source is returned whenever there is one
SingleSourceOrMore(sources) == Cardinality(sources) >= 1

\* if len(sources) == 1
SingleSource(sources) == Cardinality(sources) = 1

\* the loop stops after the first source
AddVirtualEdgesFirstOnly(g, srcs, dur) ==
    LET s == CHOOSE x \in srcs : TRUE
    IN  [nodes |-> g.nodes \cup {Virtual, s},
         edges |-> [e \in EdgeSet(g) \cup {<<Virtual, s>>} |->
                       IF e[1] = Virtual THEN dur[e[2]] ELSE g.edges[e]]]

\* _get_source_node: the loop adding ("virtual", source) edges, durations dur
AddVirtualEdges(g, srcs, dur) ==
    [nodes |-> g.nodes \cup (IF srcs = {} THEN {} ELSE {Virtual}) \cup srcs,
     edges |-> [e \in EdgeSet(g) \cup {<<Virtual, s>> : s \in srcs} |->
                   IF e[1] = Virtual THEN dur[e[2]] ELSE g.edges[e]]]

\* __init__ up to step 2 of _generate_connected_dag: shuffle, add the nodes, then
\* add ordering[i] -> ordering[j] (i < j) when random.random() < edge_probability
GenerateEdges(durations) ==
    /\ pc = "generate"
    /\ \E ord \in Orderings(num_nodes) :
       \E E \in EdgeChoices(ForwardPairs(ord), edge_probability) :
              \E dur \in [E -> durations] :
                 LET g == [nodes |-> {ord[i] : i \in 1..num_nodes}, edges |-> dur]
                     reach == Descendants(g, ord[1]) \cup {ord[1]}
                 IN  /\ ordering' = ord
                     /\ G' = g
                     /\ reachable' = reach
                     /\ unreachable' = g.nodes \ reach
    /\ pc' = "repair"
    /\ UNCHANGED <<num_nodes, edge_probability, graph, source, lang_schema, schema, execVars, previous>>

\* step 3: one iteration of `for node in unreachable`
RepairNode(durations) ==
    /\ pc = "repair"
    /\ unreachable # {}
    /\ \E node \in unreachable :
       \E d \in durations :
       \E s \in Splice(G, node, reachable, d) :
              /\ G' = s.graph
              /\ reachable' = IF s.inserted THEN reachable \cup {node} ELSE reachable
              /\ unreachable' = unreachable \ {node}
    /\ UNCHANGED <<pc, num_nodes, edge_probability, ordering, graph, source, lang_schema,
                   schema, execVars, previous>>

\* return nx.relabel_nodes(G, ...): self.graph is set, the locals are gone
ReturnGraph ==
    /\ pc = "repair"
    /\ unreachable = {}
    /\ graph' = RelabelNodes(G)
    /\ G' = EmptyGraph
    /\ ordering' = <<>>
    /\ reachable' = {}
    /\ pc' = "get_source"
    /\ UNCHANGED <<num_nodes, edge_probability, unreachable, source, lang_schema, schema,
                   execVars, previous>>

\* self.source = self._get_source_node()
GetSourceNode(durations) ==
    /\ pc = "get_source"
    /\ LET sources == Sources(graph)
       IN  IF SingleSource(sources)
           THEN /\ source' = CHOOSE n \in sources : TRUE
                /\ graph' = graph
           ELSE /\ \E dur \in [sources -> durations] :
                      graph' = AddVirtualEdges(graph, sources, dur)
                /\ source' = Virtual
    /\ pc' = "export"
    /\ UNCHANGED <<num_nodes, edge_probability, ordering, reachable, unreachable, G,
                   lang_schema, schema, execVars, previous>>

\* the arrangements of the members of a set as a list
Arrangements(S) ==
    {f \in [1..Cardinality(S) -> S] : \A i, j \in 1..Cardinality(S) : f[i] = f[j] => i = j}

\* only the pair of one of the node's edges is kept: the list is assigned, not appended to
SchemaEntriesLastOnly(g, u) ==
    LET v == CHOOSE x \in Successors(g, u) : TRUE
    IN  {<<v, g.edges[<<u, v>>]>>}

\* _to_schema: the (v, duration) pairs appended to schema[u]
SchemaEntries(g, u) == {<<v, g.edges[<<u, v>>]>> : v \in Successors(g, u)}

\* _to_schema: the dicts the loop over graph.edges can build.  Only nodes with an
\* outgoing edge get a key.  graph.edges is visited in insertion order, which the
\* graph of this model does not record: each list can come out in any order.
RECURSIVE SchemasOver(_, _)
SchemasOver(g, tails) ==
    IF tails = {} THEN {EmptyMap}
    ELSE LET u == CHOOSE x \in tails : TRUE
         IN  {[x \in DOMAIN rest \cup {u} |-> IF x = u THEN list ELSE rest[x]] :
                 rest \in SchemasOver(g, tails \ {u}),
                 list \in Arrangements(SchemaEntries(g, u))}

ToSchema(g) == SchemasOver(g, {e[1] : e \in EdgeSet(g)})

\* _to_langgraph_schema; the lists "nodes" and "edges" are kept as sets
ToLanggraphSchema(g, src) ==
    [nodes |-> g.nodes, edges |-> EdgeSet(g), durations |-> g.edges, source |-> src]

\* self.lang_schema = self._to_langgraph_schema(); self.schema = self._to_schema(),
\* the dict being one of schemas
ExportSchemas(schemas) ==
    /\ pc = "export"
    /\ lang_schema' = ToLanggraphSchema(graph, source)
    /\ schema' \in schemas
    /\ pc' = "constructed"
    /\ UNCHANGED <<num_nodes, edge_probability, ordering, reachable, unreachable, G, graph,
                   source, execVars, previous>>

-----------------------------------------------------------------------------
(* NodeExecutionStrategy                                                   *)

DurationSleepStrategy == "DurationSleepStrategy"
LLMStrategy == "LLMStrategy"
StrategyKinds == {DurationSleepStrategy, LLMStrategy}

\* ' + '.join(inputs)
RECURSIVE Join(_)
Join(inputs) ==
    IF Len(inputs) = 0 THEN ""
    ELSE IF Len(inputs) = 1 THEN inputs[1]
    ELSE inputs[1] \o " + " \o Join(Tail(inputs))

\* ' + '.join(inputs) if inputs else f'init_{node}'
InputsOrInit(node, inputs) ==
    IF Len(inputs) > 0 THEN Join(inputs) ELSE "init_" \o node

\* DurationSleepStrategy.execute, after the sleep
DelayResult(node, inputs) == node \o "_result(" \o InputsOrInit(node, inputs) \o ")"

\* LLMStrategy.execute: the prompt, and the text the model returns for it
LLMPrompt(node, inputs) == "Node " \o node \o " - process: " \o InputsOrInit(node, inputs)
LLMResult(node, inputs) == LLMPrompt(node, inputs) \o " ..."

\* what a call strategy.execute(node, inputs, duration) can end with:
\* [raised |-> FALSE, value |-> text] or [raised |-> TRUE, value |-> the exception's text]
StrategyOutcomes(kind, node, inputs) ==
    IF kind = DurationSleepStrategy
    THEN {[raised |-> FALSE, value |-> DelayResult(node, inputs)]}
    ELSE {[raised |-> FALSE, value |-> LLMResult(node, inputs)],
          [raised |-> TRUE, value |-> "generation failed"]}

-----------------------------------------------------------------------------
(* WorkflowExecutor                                                        *)

Loop == <<"loop">>
Main == <<"main">>
Free == <<"free">>
Task(n, i) == <<"task", n, i>>

NewTask == [pc |-> "created", result |-> "", raised |-> FALSE, inputs |-> <<>>, duration |-> 0]

\* the coroutines made so far, as (node, index) pairs
TaskIds == {t \in UNION {{n} \X (1..Len(tasks[n])) : n \in DOMAIN tasks} : TRUE}

\* the exception's text alone, without the marker
ErrorResultUnmarked(e) == "" \o e

\* except Exception as e: result = f"ERROR: {e}"
ErrorResult(e) == "ERROR: " \o e

\* child_inputs is a defaultdict(list)
ChildInputs(n) == IF n \in DOMAIN child_inputs THEN child_inputs[n] ELSE <<>>

\* the list is replaced instead of appended to
AppendInputOverwrites(inputs, result) == <<result>>

\* self.child_inputs[succ].append(result)
AppendInput(inputs, result) == Append(inputs, result)

\* a successor is scheduled while one decrement is still to come
ReadyOneEarly(in_degree) == in_degree <= 1

\* if self.in_degrees[succ] == 0
Ready(in_degree) == in_degree = 0

\* the wait loop gives up one node early
StillWaitingOffByOne == Cardinality(DOMAIN results) < Cardinality(graph.nodes) - 1

\* while len(self.results) < len(self.dag.graph.nodes)
StillWaiting == Cardinality(DOMAIN results) < Cardinality(graph.nodes)

\* sum(incoming_durations)
RECURSIVE SumDurations(_, _)
SumDurations(g, es) ==
    IF es = {} THEN 0
    ELSE LET e == CHOOSE x \in es : TRUE
         IN  g.edges[e] + SumDurations(g, es \ {e})

\* the number of incoming edges is taken for the sum of their durations
TotalDurationCount(g, node) == Cardinality({e \in EdgeSet(g) : e[2] = node})

\* incoming_durations: the duration of (src, node) for src in predecessors(node)
TotalDuration(g, node) == SumDurations(g, {e \in EdgeSet(g) : e[2] = node})

\* WorkflowExecutor(dag, strategy): __init__
NewExecutor(kinds) ==
    /\ pc = "constructed"
    /\ strategy' \in kinds
    /\ results' = EmptyMap
    /\ timings' = EmptyMap
    /\ active_tasks' = 0
    /\ max_parallelism' = 0
    /\ child_inputs' = EmptyMap
    /\ in_degrees' = [n \in graph.nodes |-> InDegree(graph, n)]
    /\ lock' = Free
    /\ wall' = [start |-> FALSE, end |-> FALSE]
    /\ tasks' = [n \in graph.nodes |-> <<>>]
    /\ started' = [n \in graph.nodes |-> 0]
    /\ written' = [n \in graph.nodes |-> 0]
    /\ pc' = "executor"
    /\ UNCHANGED <<previous, genVars, cpu>>

\* run(): wall_start_time, then await self._run_node_task(self.dag.source), which
\* runs inside run()'s own coroutine
Run ==
    /\ pc = "executor"
    /\ wall' = [wall EXCEPT !.start = TRUE]
    /\ tasks' = [tasks EXCEPT ![source] = Append(@, NewTask)]
    /\ cpu' = Task(source, Len(tasks[source]) + 1)
    /\ pc' = "run"
    /\ UNCHANGED <<previous, genVars, strategy, results, timings, active_tasks, max_parallelism,
                   child_inputs, in_degrees, lock, started, written>>

\* the first `async with self.lock` is left out: the task goes on without the lock
EnterNodeTaskUnlocked ==
    \E t \in TaskIds :
       LET n == t[1]
           i == t[2]
       IN  /\ tasks[n][i].pc = "created"
           /\ cpu = Loop \/ cpu = Task(n, i)
           /\ cpu' = Task(n, i)
           /\ tasks' = [tasks EXCEPT ![n][i].pc = "counting"]
           /\ started' = [started EXCEPT ![n] = @ + 1]
           /\ UNCHANGED <<pc, previous, genVars, strategy, results, timings, active_tasks,
                          max_parallelism, child_inputs, in_degrees, lock, wall, written>>

\* _run_node_task begins: the event loop runs a task made by create_task (or run()
\* enters the source's call), up to the first `async with self.lock` acquired
EnterNodeTask ==
    \E t \in TaskIds :
       LET n == t[1]
           i == t[2]
       IN  /\ tasks[n][i].pc = "created"
           /\ cpu = Loop \/ cpu = Task(n, i)
           /\ lock = Free
           /\ lock' = Task(n, i)
           /\ cpu' = Task(n, i)
           /\ tasks' = [tasks EXCEPT ![n][i].pc = "counting"]
           /\ started' = [started EXCEPT ![n] = @ + 1]
           /\ UNCHANGED <<pc, previous, genVars, strategy, results, timings, active_tasks,
                          max_parallelism, child_inputs, in_degrees, wall, written>>

\* the strategy call is made inside the first `async with self.lock` block: the
\* lock is still held while the task is suspended
CallStrategyHoldingLock ==
    \E t \in TaskIds :
       LET n == t[1]
           i == t[2]
       IN  /\ tasks[n][i].pc = "counting"
           /\ cpu = Task(n, i)
           /\ active_tasks' = active_tasks + 1
           /\ max_parallelism' = IF active_tasks + 1 > max_parallelism
                                 THEN active_tasks + 1 ELSE max_parallelism
           /\ tasks' = [tasks EXCEPT ![n][i] =
                           [@ EXCEPT !.pc = "executing", !.inputs = <<>>,
                                     !.duration = TotalDuration(graph, n)]]
           /\ cpu' = Loop
           /\ UNCHANGED <<pc, previous, genVars, strategy, results, timings, child_inputs,
                          in_degrees, lock, wall, started, written>>

\* active_tasks += 1, max_parallelism, lock released; total_duration; then
\* await self.strategy.execute(node, [], total_duration) suspends the task
CallStrategy ==
    \E t \in TaskIds :
       LET n == t[1]
           i == t[2]
       IN  /\ tasks[n][i].pc = "counting"
           /\ cpu = Task(n, i)
           /\ active_tasks' = active_tasks + 1
           /\ max_parallelism' = IF active_tasks + 1 > max_parallelism
                                 THEN active_tasks + 1 ELSE max_parallelism
           /\ lock' = Free
           /\ tasks' = [tasks EXCEPT ![n][i] =
                           [@ EXCEPT !.pc = "executing", !.inputs = <<>>,
                                     !.duration = TotalDuration(graph, n)]]
           /\ cpu' = Loop
           /\ UNCHANGED <<pc, previous, genVars, strategy, results, timings, child_inputs,
                          in_degrees, wall, started, written>>

\* strategy.execute returns or raises; the result and the timing are recorded
StrategyReturns ==
    \E t \in TaskIds :
       LET n == t[1]
           i == t[2]
       IN  /\ tasks[n][i].pc = "executing"
           /\ cpu = Loop
           /\ \E out \in StrategyOutcomes(strategy, n, tasks[n][i].inputs) :
                 LET result == IF out.raised THEN ErrorResult(out.value) ELSE out.value
                 IN  /\ tasks' = [tasks EXCEPT ![n][i] =
                                     [@ EXCEPT !.pc = "recorded", !.result = result,
                                               !.raised = out.raised]]
                     /\ results' = [x \in DOMAIN results \cup {n} |->
                                       IF x = n THEN result ELSE results[x]]
           /\ timings' = [x \in DOMAIN timings \cup {n} |->
                             IF x = n THEN "elapsed" ELSE timings[x]]
           /\ written' = [written EXCEPT ![n] = @ + 1]
           /\ cpu' = Task(n, i)
           /\ UNCHANGED <<pc, previous, genVars, strategy, active_tasks, max_parallelism,
                          child_inputs, in_degrees, lock, wall, started>>

\* the second `async with self.lock` is entered
LockForSuccessors ==
    \E t \in TaskIds :
       LET n == t[1]
           i == t[2]
       IN  /\ tasks[n][i].pc = "recorded"
           /\ cpu = Task(n, i)
           /\ lock = Free
           /\ lock' = Task(n, i)
           /\ tasks' = [tasks EXCEPT ![n][i].pc = "releasing"]
           /\ UNCHANGED <<pc, previous, genVars, strategy, results, timings, active_tasks,
                          max_parallelism, child_inputs, in_degrees, cpu, wall,
                          started, written>>

\* active_tasks -= 1 and the loop over the successors, then the lock is released and
\* the coroutine ends; run() goes on to _wait_until_all_done after the source's call
UpdateSuccessors ==
    \E t \in TaskIds :
       LET n == t[1]
           i == t[2]
           succs == Successors(graph, n)
           result == tasks[n][i].result
       IN  /\ tasks[n][i].pc = "releasing"
           /\ cpu = Task(n, i)
           /\ active_tasks' = active_tasks - 1
           /\ in_degrees' = [x \in DOMAIN in_degrees |->
                                IF x \in succs THEN in_degrees[x] - 1 ELSE in_degrees[x]]
           /\ child_inputs' = [x \in DOMAIN child_inputs \cup succs |->
                                  IF x \in succs THEN AppendInput(ChildInputs(x), result)
                                  ELSE child_inputs[x]]
           /\ tasks' = [x \in DOMAIN tasks |->
                           IF x = n
                           THEN [tasks[n] EXCEPT ![i].pc = "done"]
                           ELSE IF x \in succs /\ Ready(in_degrees[x] - 1)
                                THEN Append(tasks[x], NewTask)
                                ELSE tasks[x]]
           /\ lock' = Free
           /\ IF pc = "run" /\ n = source /\ i = 1
              THEN pc' = "wait" /\ cpu' = Main
              ELSE pc' = pc /\ cpu' = Loop
           /\ UNCHANGED <<previous, genVars, strategy, results, timings, max_parallelism, wall,
                          started, written>>

\* _wait_until_all_done: one test of the loop condition; asyncio.sleep(0.05) when
\* it holds, else run() records wall_end_time and returns
WaitUntilAllDone ==
    /\ pc = "wait"
    /\ cpu = Main \/ cpu = Loop
    /\ IF StillWaiting
       THEN pc' = pc /\ wall' = wall
       ELSE pc' = "returned" /\ wall' = [wall EXCEPT !.end = TRUE]
    /\ cpu' = Loop
    /\ UNCHANGED <<previous, genVars, strategy, results, timings, active_tasks, max_parallelism,
                   child_inputs, in_degrees, lock, tasks, started, written>>

\* get_performance_metrics: "node_count" and "max_parallelism" (the other entries
\* are sums and quotients of measured times)
MetricsNodeCount == Cardinality(DOMAIN timings)
MetricsMaxParallelism == max_parallelism

\* no executor has run yet
NoRun == [runs |-> 0, node_count |-> 0, completed |-> {}, results |-> EmptyMap]

\* a second WorkflowExecutor(dag, strategy) is made over the same dag with the same
\* strategy once the first one's run() has returned; what the first run left is kept
\* (its result strings for the delay strategy only, whose strings do not vary)
ConstructAgain ==
    /\ pc = "returned"
    /\ previous.runs = 0
    /\ previous' = [runs |-> 1, node_count |-> MetricsNodeCount,
                    completed |-> DOMAIN results,
                    results |-> IF strategy = DurationSleepStrategy THEN results
                                ELSE EmptyMap]
    /\ results' = EmptyMap
    /\ timings' = EmptyMap
    /\ active_tasks' = 0
    /\ max_parallelism' = 0
    /\ child_inputs' = EmptyMap
    /\ in_degrees' = [n \in graph.nodes |-> InDegree(graph, n)]
    /\ lock' = Free
    /\ wall' = [start |-> FALSE, end |-> FALSE]
    /\ tasks' = [n \in graph.nodes |-> <<>>]
    /\ started' = [n \in graph.nodes |-> 0]
    /\ written' = [n \in graph.nodes |-> 0]
    /\ pc' = "executor"
    /\ UNCHANGED <<genVars, strategy, cpu>>

-----------------------------------------------------------------------------
(* The driver                                                              *)

InitWith(ns, ps) ==
    /\ pc = "generate"
    /\ num_nodes \in ns
    /\ edge_probability \in ps
    /\ ordering = <<>>
    /\ reachable = {}
    /\ unreachable = {}
    /\ G = EmptyGraph
    /\ graph = EmptyGraph
    /\ source = ""
    /\ lang_schema = ToLanggraphSchema(EmptyGraph, "")
    /\ schema = EmptyMap
    /\ strategy = ""
    /\ results = EmptyMap
    /\ timings = EmptyMap
    /\ active_tasks = 0
    /\ max_parallelism = 0
    /\ child_inputs = EmptyMap
    /\ in_degrees = EmptyMap
    /\ lock = Free
    /\ tasks = EmptyMap
    /\ cpu = Loop
    /\ wall = [start |-> FALSE, end |-> FALSE]
    /\ started = EmptyMap
    /\ written = EmptyMap
    /\ previous = NoRun

Init == InitWith(1..MaxNodes, Probabilities)

Construct == NewExecutor(StrategyKinds)

\* random.randint(1, 10), the range cut to 1..MaxDuration
Durations == 1..MaxDuration

Next ==
    \/ GenerateEdges(Durations)
    \/ RepairNode(Durations)
    \/ ReturnGraph
    \/ GetSourceNode(Durations)
    \/ ExportSchemas(ToSchema(graph))
    \/ Construct
    \/ Run
    \/ EnterNodeTask
    \/ CallStrategy
    \/ StrategyReturns
    \/ LockForSuccessors
    \/ UpdateSuccessors
    \/ WaitUntilAllDone

Spec == Init /\ [][Next]_vars

\* generation alone: dag = WeightedDAG(num_nodes, edge_probability)
NextGenerate ==
    \/ GenerateEdges(Durations)
    \/ RepairNode(Durations)
    \/ ReturnGraph
    \/ GetSourceNode(Durations)
    \/ ExportSchemas(ToSchema(graph))

SpecGenerate == Init /\ [][NextGenerate]_vars

\* two executors made and run one after the other over one dag
NextTwoRuns ==
    \/ GenerateEdges(Durations)
    \/ RepairNode(Durations)
    \/ ReturnGraph
    \/ GetSourceNode(Durations)
    \/ ExportSchemas(ToSchema(graph))
    \/ Construct
    \/ Run
    \/ EnterNodeTask
    \/ CallStrategy
    \/ StrategyReturns
    \/ LockForSuccessors
    \/ UpdateSuccessors
    \/ WaitUntilAllDone
    \/ ConstructAgain

SpecTwoRuns == Init /\ [][NextTwoRuns]_vars

\* scenario: WeightedDAG(num_nodes=5, edge_probability=0) run with the delay strategy.
\* The scheduler of this model does not read the durations, so every draw of
\* random.randint is taken to give the same value here; nor does it read dag.schema,
\* of whose list orders one is taken.
InitFiveNoEdges == InitWith({5}, {0})

ConstructDelay == NewExecutor({DurationSleepStrategy})

NextFiveNoEdges ==
    \/ GenerateEdges({MaxDuration})
    \/ RepairNode({MaxDuration})
    \/ ReturnGraph
    \/ GetSourceNode({MaxDuration})
    \/ ExportSchemas({CHOOSE s \in ToSchema(graph) : TRUE})
    \/ ConstructDelay
    \/ Run
    \/ EnterNodeTask
    \/ CallStrategy
    \/ StrategyReturns
    \/ LockForSuccessors
    \/ UpdateSuccessors
    \/ WaitUntilAllDone

SpecFiveNoEdges == InitFiveNoEdges /\ [][NextFiveNoEdges]_vars

\* The event loop resumes every task that can run, every strategy call returns, and
\* straight-line code goes on: each step that can be taken is taken in the end.
FairSpec ==
    /\ Init
    /\ [][Next]_vars
    /\ WF_vars(NextGenerate \/ Construct \/ Run)
    /\ WF_vars(EnterNodeTask)
    /\ WF_vars(CallStrategy)
    /\ WF_vars(StrategyReturns)
    /\ WF_vars(LockForSuccessors)
    /\ WF_vars(UpdateSuccessors)
    /\ WF_vars(WaitUntilAllDone)

-----------------------------------------------------------------------------
(* Properties                                                              *)

\* a task of node n has begun _run_node_task (it is past "created")
Begun(n) == \E i \in 1..Len(tasks[n]) : tasks[n][i].pc # "created"

\* every coroutine made for node p has ended
Ended(p) == Len(tasks[p]) > 0 /\ \A j \in 1..Len(tasks[p]) : tasks[p][j].pc = "done"

\* no edge joins two nodes of S
Unrelated(S) == \A a, b \in S : <<a, b>> \notin EdgeSet(graph)

\* C1: a node's unit of work begins only after each of its direct predecessors has
\* its result recorded and has ended; no node begins while a predecessor is still
\* pending or running.
C1_StartsAfterPredecessors ==
    \A n \in DOMAIN tasks :
       Begun(n) => \A p \in Predecessors(graph, n) : p \in DOMAIN results /\ Ended(p)

\* a node with two predecessors is inside its strategy call
C1_Witness ==
    \E n \in DOMAIN tasks :
       /\ Cardinality(Predecessors(graph, n)) >= 2
       /\ Len(tasks[n]) = 1
       /\ tasks[n][1].pc = "executing"

\* C2: in one run no node is given two units of work, none begins twice and
\* results[node] (with timings[node]) is assigned at most once; when run() has
\* returned each node has begun exactly once and been written exactly once.
C2_StartedExactlyOnce ==
    /\ \A n \in DOMAIN tasks : Len(tasks[n]) <= 1 /\ started[n] <= 1 /\ written[n] <= 1
    /\ pc = "returned" =>
          \A n \in graph.nodes :
             /\ started[n] = 1
             /\ written[n] = 1
             /\ n \in DOMAIN results
             /\ n \in DOMAIN timings

\* run() has returned on a graph where two unrelated predecessors of one node ran
\* side by side
C2_Witness ==
    /\ pc = "returned"
    /\ max_parallelism >= 2
    /\ \E n \in graph.nodes :
          /\ Cardinality(Predecessors(graph, n)) >= 2
          /\ Unrelated(Predecessors(graph, n))
          /\ started[n] = 1

\* the number of nodes of the graph: num_nodes, and the virtual source when present
NodeCount == num_nodes + (IF Virtual \in graph.nodes THEN 1 ELSE 0)

\* C3: under fair scheduling, with strategy calls that return, run() returns in the
\* end, and when it has returned results and timings hold one entry per graph node,
\* n entries in all.
C3_RunReturnsWithAllResults ==
    /\ <>(pc = "returned")
    /\ [](pc = "returned" =>
             /\ DOMAIN results = graph.nodes
             /\ DOMAIN timings = graph.nodes
             /\ Cardinality(DOMAIN results) = NodeCount
             /\ Cardinality(DOMAIN timings) = NodeCount)

\* run() has returned on a three-node graph that got a virtual source
C3_Witness ==
    /\ pc = "returned"
    /\ num_nodes = 3
    /\ Virtual \in graph.nodes
    /\ Cardinality(DOMAIN results) = 4

\* the text begins with the error marker
HasErrorMarker(text) == Len(text) >= 6 /\ SubSeq(text, 1, 6) = "ERROR:"

\* some strategy call has raised
SomeRaised == \E t \in TaskIds : tasks[t[1]][t[2]].raised

\* what holds of a node whose strategy call raised
C4_Recovered ==
    \A t \in TaskIds :
       LET n == t[1]
           task == tasks[t[1]][t[2]]
       IN  task.raised =>
              /\ n \in DOMAIN results
              /\ HasErrorMarker(results[n])
              /\ task.pc = "done" =>
                    \A s \in Successors(graph, n) :
                       /\ in_degrees[s] < InDegree(graph, s)
                       /\ \E k \in 1..Len(ChildInputs(s)) :
                             /\ ChildInputs(s)[k] = results[n]
                             /\ HasErrorMarker(ChildInputs(s)[k])

\* run() has returned with every node written and every unit of work ended
AllCompleted ==
    /\ pc = "returned"
    /\ DOMAIN results = graph.nodes
    /\ \A n \in graph.nodes : Ended(n)

\* C4: when the strategy raises for a node, the node's result is an "ERROR:" string,
\* the node still ends, each successor has its in-degree decremented and holds that
\* string among its inputs, and run() still returns with every node completed.
C4_FailureIsRecovered ==
    /\ []C4_Recovered
    /\ SomeRaised ~> AllCompleted

\* run() has returned; a node whose strategy raised has a successor whose own
\* strategy call succeeded
C4_Witness ==
    /\ pc = "returned"
    /\ \E n \in graph.nodes :
          /\ tasks[n][1].raised
          /\ \E s \in Successors(graph, n) :
                /\ ~tasks[s][1].raised
                /\ ~HasErrorMarker(results[s])

\* generation and source resolution are over: WeightedDAG.graph and .source are final
Generated == pc \notin {"generate", "repair", "get_source"}

\* Kahn's topological sort consumes the whole graph: no directed cycle
RECURSIVE TopologicallySortable(_, _)
TopologicallySortable(nodes, edges) ==
    IF nodes = {} THEN TRUE
    ELSE LET free == {n \in nodes : ~\E e \in edges : e[2] = n}
         IN  /\ free # {}
             /\ TopologicallySortable(nodes \ free, {e \in edges : e[1] \notin free})

\* C5: the graph WeightedDAG holds after construction has no directed cycle and no
\* self-loop.
C5_GeneratedGraphIsAcyclic ==
    Generated =>
       /\ TopologicallySortable(graph.nodes, EdgeSet(graph))
       /\ \A e \in EdgeSet(graph) : e[1] # e[2]

\* a three-node graph whose repair pass and source resolution both added edges
C5_Witness ==
    /\ pc = "constructed"
    /\ num_nodes = 3
    /\ edge_probability = 0
    /\ Virtual \in graph.nodes
    /\ Cardinality(EdgeSet(graph)) = 4

\* C6: after generation exactly one node of the graph has in-degree 0; it is the
\* stored source and a node of the graph.
C6_ExactlyOneSource ==
    Generated =>
       /\ source \in graph.nodes
       /\ {n \in graph.nodes : ~\E e \in EdgeSet(graph) : e[2] = n} = {source}

\* a virtual source was inserted above two natural sources
C6_Witness ==
    /\ pc = "constructed"
    /\ source = Virtual
    /\ Cardinality({e \in EdgeSet(graph) : e[1] = Virtual}) >= 2

\* the nodes a directed path leads to from n (n itself included)
RECURSIVE Closure(_, _)
Closure(edges, seen) ==
    LET more == {e[2] : e \in {x \in edges : x[1] \in seen}} \ seen
    IN  IF more = {} THEN seen ELSE Closure(edges, seen \cup more)

\* C7: after generation every node of the graph is reachable along directed edges
\* from the resolved source.
C7_AllReachableFromSource ==
    Generated => graph.nodes = Closure(EdgeSet(graph), {source})

\* a natural single source of a three-node graph all of whose edges the repair made
C7_Witness ==
    /\ pc = "constructed"
    /\ num_nodes = 3
    /\ edge_probability = 0
    /\ source # Virtual
    /\ Cardinality(EdgeSet(graph)) = 2

\* the nodes and edges of the graph apart from the virtual source
RealNodes == graph.nodes \ {Virtual}
RealEdges == {e \in EdgeSet(graph) : e[1] # Virtual}

\* the real nodes that no real edge enters: the sources before source resolution
NaturalSources == {n \in RealNodes : ~\E e \in RealEdges : e[2] = n}

\* the claim C8 as it was stated: five sources under a virtual source, six results
\* and five nodes running side by side
C8_AsStated ==
    /\ Generated =>
          /\ Cardinality(graph.nodes) = 6
          /\ EdgeSet(graph) = {<<Virtual, Label(i)>> : i \in 0..(num_nodes - 1)}
    /\ pc = "returned" =>
          /\ Cardinality(DOMAIN results) = 6
          /\ max_parallelism = 5

\* C8 (amended): with num_nodes = 5 and edge_probability = 0 no random edge forms,
\* but the repair pass gives each node other than one (the first of the ordering)
\* exactly one outgoing edge, and that one node is entered by an edge, so it is no
\* source; between one and four nodes are sources; the virtual source is added,
\* with an edge to each of them, exactly when they are two or more, so the graph
\* has 5 or 6 nodes; the run gives one result per graph node and max_parallelism is
\* at least 1 and at most the number of sources, hence at most 4.
C8_RepairedScenario ==
    /\ Generated =>
          /\ RealNodes = {Label(i) : i \in 0..(num_nodes - 1)}
          /\ Cardinality(RealEdges) = num_nodes - 1
          /\ \E first \in RealNodes :
                /\ first \notin NaturalSources
                /\ \A n \in RealNodes :
                      Cardinality({e \in RealEdges : e[1] = n}) = (IF n = first THEN 0 ELSE 1)
          /\ Cardinality(NaturalSources) \in 1..(num_nodes - 1)
          /\ (Virtual \in graph.nodes) <=> (Cardinality(NaturalSources) >= 2)
          /\ Virtual \in graph.nodes =>
                {e[2] : e \in EdgeSet(graph) \ RealEdges} = NaturalSources
          /\ Cardinality(graph.nodes) \in {num_nodes, num_nodes + 1}
    /\ pc = "returned" =>
          /\ DOMAIN results = graph.nodes
          /\ max_parallelism >= 1
          /\ max_parallelism <= Cardinality(NaturalSources)
          /\ max_parallelism <= num_nodes - 1

\* the run has returned on the widest graph of the scenario: four sources under the
\* virtual source, all four having run side by side
C8_Witness ==
    /\ pc = "returned"
    /\ num_nodes = 5
    /\ edge_probability = 0
    /\ Cardinality(graph.nodes) = 6
    /\ Cardinality(DOMAIN results) = 6
    /\ max_parallelism = 4

\* the units of work counted in active_tasks: past the increment, before the decrement
Active == {t \in TaskIds : tasks[t[1]][t[2]].pc \in {"executing", "recorded", "releasing"}}

\* a is an ancestor of b, or b of a
Related(a, b) == b \in Closure(EdgeSet(graph), {a}) \/ a \in Closure(EdgeSet(graph), {b})

\* the size of the largest set of pairwise dependency-unrelated nodes
MaxUnrelated ==
    LET sets == {S \in SUBSET graph.nodes : \A a, b \in S : a # b => ~Related(a, b)}
    IN  CHOOSE k \in 0..Cardinality(graph.nodes) :
           /\ \E S \in sets : Cardinality(S) = k
           /\ \A S \in sets : Cardinality(S) <= k

\* each node has at most one predecessor and at most one successor
IsChain ==
    \A n \in graph.nodes :
       /\ Cardinality({e \in EdgeSet(graph) : e[1] = n}) <= 1
       /\ Cardinality({e \in EdgeSet(graph) : e[2] = n}) <= 1

\* C9: active_tasks counts the units of work in progress, no two of them belong to
\* a node and one of its ancestors (nor to one node), so max_parallelism never
\* exceeds the largest set of pairwise unrelated nodes; on a chain (a single node
\* included) max_parallelism is 1 when run() has returned.
C9_NoAncestorsActiveTogether ==
    pc \in {"executor", "run", "wait", "returned"} =>
       /\ active_tasks = Cardinality(Active)
       /\ \A t, u \in Active : t # u => ~Related(t[1], u[1])
       /\ max_parallelism <= MaxUnrelated
       /\ (pc = "returned" /\ IsChain) => max_parallelism = 1

\* run() has returned on a chain of three nodes
C9_Witness ==
    /\ pc = "returned"
    /\ IsChain
    /\ Cardinality(graph.nodes) = 3
    /\ max_parallelism = 1

\* the list inputs holds exactly the recorded results of the nodes of preds, one
\* entry each, in some order
HoldsResultsOf(inputs, preds) ==
    /\ Len(inputs) = Cardinality(preds)
    /\ preds \subseteq DOMAIN results
    /\ \E f \in [1..Len(inputs) -> preds] :
          /\ \A j, k \in 1..Len(inputs) : f[j] = f[k] => j = k
          /\ \A k \in 1..Len(inputs) : inputs[k] = results[f[k]]

\* C10: from the moment a node begins, and still when run() has returned,
\* child_inputs[node] holds exactly one entry per direct predecessor, each that
\* predecessor's recorded result, in any order; for the source it is empty.
C10_ChildInputsArePredecessorResults ==
    \A n \in DOMAIN tasks :
       Begun(n) =>
          /\ HoldsResultsOf(ChildInputs(n), Predecessors(graph, n))
          /\ n = source => ChildInputs(n) = <<>>

\* run() has returned; a node holds the two different results of its two predecessors
C10_Witness ==
    /\ pc = "returned"
    /\ \E n \in graph.nodes :
          /\ Cardinality(Predecessors(graph, n)) = 2
          /\ Len(ChildInputs(n)) = 2
          /\ ChildInputs(n)[1] # ChildInputs(n)[2]

\* the (node, successor, duration) triples of an adjacency schema, and the number of
\* entries of its lists
SchemaTriples(s) ==
    UNION {{<<u, s[u][k][1], s[u][k][2]>> : k \in 1..Len(s[u])} : u \in DOMAIN s}

RECURSIVE SchemaSize(_, _)
SchemaSize(s, keys) ==
    IF keys = {} THEN 0
    ELSE LET u == CHOOSE x \in keys : TRUE
         IN  Len(s[u]) + SchemaSize(s, keys \ {u})

\* C11: once WeightedDAG is constructed, the (node, successor, duration) triples of
\* its adjacency schema are exactly the (source, target, duration) edges of the
\* final graph, the virtual source's edges included: none missing, none extra (no
\* entry twice), every duration the edge's own.
C11_SchemaMatchesEdges ==
    pc \notin {"generate", "repair", "get_source", "export"} =>
       /\ SchemaTriples(schema) = {<<e[1], e[2], graph.edges[e]>> : e \in EdgeSet(graph)}
       /\ SchemaSize(schema, DOMAIN schema) = Cardinality(EdgeSet(graph))
       /\ DOMAIN schema \subseteq graph.nodes

\* the schema of a graph with a virtual source whose two edges differ in duration
C11_Witness ==
    /\ pc = "constructed"
    /\ Virtual \in DOMAIN schema
    /\ Len(schema[Virtual]) = 2
    /\ schema[Virtual][1][2] # schema[Virtual][2][2]
    /\ \E u \in DOMAIN schema : u # Virtual

\* C12: two executors made one after the other over the same graph with the same
\* strategy, each run to its return under any interleaving of the node tasks, report
\* the same node_count and leave the same set of completed nodes; with the delay
\* strategy they also leave the same result string for every node.
C12_TwoRunsAgree ==
    (pc = "returned" /\ previous.runs = 1) =>
       /\ MetricsNodeCount = previous.node_count
       /\ DOMAIN results = previous.completed
       /\ strategy = DurationSleepStrategy => results = previous.results

\* the second run has returned; both runs used the delay strategy on a graph where
\* two nodes can run side by side, and the second run did run them so
C12_Witness ==
    /\ pc = "returned"
    /\ previous.runs = 1
    /\ strategy = DurationSleepStrategy
    /\ max_parallelism >= 2
    /\ Cardinality(previous.completed) >= 3

\* the task t takes the step: its position in _run_node_task changes
Stepper(t) == tasks'[t[1]][t[2]].pc # tasks[t[1]][t[2]].pc

\* the task that takes the step holds the lock when the step begins
StepperHoldsLock == \E t \in TaskIds : Stepper(t) /\ lock = Task(t[1], t[2])

\* a run is under way: run() has been entered and has not returned
Running == pc \in {"run", "wait"}

\* the claim C13 as it was stated: the results and timings maps too are only
\* mutated by a task that holds the lock
C13_AsStated ==
    [][(/\ Running
        /\ <<in_degrees, child_inputs, results, timings, active_tasks, max_parallelism>>'
              # <<in_degrees, child_inputs, results, timings, active_tasks, max_parallelism>>)
       => StepperHoldsLock]_vars

\* C13 (amended): during a run every mutation of the in-degree map, of the
\* accumulated-inputs map and of the active_tasks / max_parallelism counters is made
\* by a task that holds the executor's lock; results[node] and timings[node] are
\* written by the node's own task while no task holds the lock, in the step in which
\* its strategy call returns, before it takes the lock to update the successors.
C13_BookkeepingUnderLock ==
    [][Running =>
         /\ (<<in_degrees, child_inputs, active_tasks, max_parallelism>>'
                # <<in_degrees, child_inputs, active_tasks, max_parallelism>>)
               => StepperHoldsLock
         /\ (results' # results \/ timings' # timings) =>
               /\ lock = Free
               /\ \E t \in TaskIds :
                     /\ Stepper(t)
                     /\ tasks[t[1]][t[2]].pc = "executing"
                     /\ tasks'[t[1]][t[2]].pc = "recorded"
                     /\ DOMAIN results' = DOMAIN results \cup {t[1]}
                     /\ DOMAIN timings' = DOMAIN timings \cup {t[1]}]_vars

\* a node's result has just been written with the lock free while another node is
\* inside its strategy call
C13_Witness ==
    \E t, u \in TaskIds :
       /\ tasks[t[1]][t[2]].pc = "recorded"
       /\ t[1] \in DOMAIN results
       /\ lock = Free
       /\ tasks[u[1]][u[2]].pc = "executing"
       /\ active_tasks = 2

\* an executor exists: constructed, running or returned
HasExecutor == pc \in {"executor", "run", "wait", "returned"}

\* the claim C14 as it was stated: a node other than the source whose in-degree
\* counter is 0 has begun its unit of work or has finished
C14_AsStated ==
    HasExecutor =>
       \A n \in graph.nodes \ {source} : in_degrees[n] = 0 => Begun(n)

\* C14 (amended): the task of a node other than the source is made in the very step,
\* taken under the lock by the predecessor whose completion does it, that drives the
\* node's in-degree counter to 0: in every state the counter is 0 exactly when the
\* node has a task, and it never has two.  The node begins its unit of work (and is
\* counted in active_tasks) only later, when the event loop first runs that task;
\* until then the task is waiting, uncounted.
C14_ScheduledWithLastDecrement ==
    HasExecutor =>
       /\ \A n \in graph.nodes \ {source} :
             /\ Len(tasks[n]) <= 1
             /\ in_degrees[n] = 0 <=> Len(tasks[n]) = 1
       /\ \A t \in TaskIds : tasks[t[1]][t[2]].pc = "created" => t \notin Active
       /\ active_tasks = Cardinality(Active)

\* a node other than the source has in-degree 0 and a task that has not begun, while
\* its sibling, made ready in the same step, is already inside its strategy call
C14_Witness ==
    \E n, m \in graph.nodes \ {source} :
       /\ HasExecutor
       /\ n # m
       /\ in_degrees[n] = 0
       /\ Len(tasks[n]) = 1
       /\ tasks[n][1].pc = "created"
       /\ Len(tasks[m]) = 1
       /\ tasks[m][1].pc = "executing"
       /\ active_tasks = 1

\* C15: no task holds the lock while its strategy call is in progress; the lock is
\* only ever held by the task that is running, inside one of its two critical
\* sections, and is free whenever every task is suspended.  So a node whose strategy
\* call has returned finds the lock free and can take it for its bookkeeping and
\* successor release, whatever other nodes are still inside strategy.execute.
C15_NoLockDuringStrategy ==
    HasExecutor =>
       /\ \A t \in TaskIds :
             LET task == tasks[t[1]][t[2]]
                 me == Task(t[1], t[2])
             IN  /\ task.pc = "executing" => lock # me
                 /\ lock = me => cpu = me /\ task.pc \in {"counting", "releasing"}
                 /\ task.pc = "recorded" => cpu = me /\ lock = Free
       /\ cpu \in {Loop, Main} => lock = Free
       /\ lock # Free => \E t \in TaskIds : lock = Task(t[1], t[2])

\* one node has done its bookkeeping and handed its result to its successor while
\* another node, which was inside its strategy call all along, still is
C15_Witness ==
    /\ HasExecutor
    /\ \E t, u \in TaskIds :
          /\ t[1] # u[1]
          /\ tasks[u[1]][u[2]].pc = "executing"
          /\ tasks[t[1]][t[2]].pc = "done"
          /\ ~Related(t[1], u[1])
          /\ \E c \in Successors(graph, t[1]) :
                /\ in_degrees[c] = InDegree(graph, c) - 1
                /\ ChildInputs(c) = <<results[t[1]]>>
    /\ max_parallelism >= 2

\* the static durations of the edges from the nodes of preds into n, added up
RECURSIVE IncomingBudget(_, _)
IncomingBudget(n, preds) ==
    IF preds = {} THEN 0
    ELSE LET p == CHOOSE x \in preds : TRUE
         IN  graph.edges[<<p, n>>] + IncomingBudget(n, preds \ {p})

\* the strategy has been called for the task: it is inside the call or past it
Called(task) == task.pc \in {"executing", "recorded", "releasing", "done"}

\* C16: for every node the strategy is called with an empty list of inputs and with
\* the sum of the static durations of all edges entering the node (0 for the
\* source), whatever child_inputs holds for the node at that moment; the delay
\* strategy's result accordingly names no input.
C16_StrategyCalledWithStaticBudget ==
    HasExecutor =>
       \A t \in TaskIds :
          LET n == t[1]
              task == tasks[t[1]][t[2]]
          IN  Called(task) =>
                 /\ task.inputs = <<>>
                 /\ task.duration = IncomingBudget(n, Predecessors(graph, n))
                 /\ n = source => task.duration = 0
                 /\ (strategy = DurationSleepStrategy /\ n \in DOMAIN results) =>
                       results[n] = n \o "_result(init_" \o n \o ")"

\* a node with two incoming edges of durations 1 and 2 is inside its strategy call,
\* called with budget 3 and no inputs, while child_inputs holds two results for it
C16_Witness ==
    /\ HasExecutor
    /\ \E n \in graph.nodes :
          /\ {graph.edges[e] : e \in {x \in EdgeSet(graph) : x[2] = n}} = {1, 2}
          /\ Cardinality(Predecessors(graph, n)) = 2
          /\ Len(tasks[n]) = 1
          /\ tasks[n][1].pc = "executing"
          /\ tasks[n][1].duration = 3
          /\ tasks[n][1].inputs = <<>>
          /\ Len(ChildInputs(n)) = 2

\* the nodes of G that directed edges lead to from the first node of the ordering,
\* that node included
FromFirst == Closure(EdgeSet(G), {ordering[1]})

\* the nodes joined to the nodes of seen by edges taken in either direction
RECURSIVE Joined(_, _)
Joined(edges, seen) ==
    LET more == ({e[2] : e \in {x \in edges : x[1] \in seen}}
                   \cup {e[1] : e \in {x \in edges : x[2] \in seen}}) \ seen
    IN  IF more = {} THEN seen ELSE Joined(edges, seen \cup more)

\* the repair pass is over and the graph has not yet been returned
RepairDone == pc = "repair" /\ unreachable = {}

\* the claim C17 as it was stated: the repair's reachable set holds only nodes that
\* directed edges lead to from the first node, and after the pass that is every node
C17_AsStated ==
    pc = "repair" =>
       /\ reachable \subseteq FromFirst
       /\ unreachable = {} => G.nodes = FromFirst

\* C17 (amended): after the repair pass every node of the graph is joined to the
\* first node of the permutation by a path of edges taken in either direction (the
\* graph is weakly connected), and so is, during the pass, every node of the
\* repair's reachable set; that set holds the nodes directed edges lead to from the
\* first node, and after the pass every node.
C17_RepairConnects ==
    pc = "repair" =>
       /\ FromFirst \subseteq reachable
       /\ reachable \subseteq Joined(EdgeSet(G), {ordering[1]})
       /\ unreachable = {} =>
             /\ reachable = G.nodes
             /\ G.nodes = Joined(EdgeSet(G), {ordering[1]})

\* the pass is over on three nodes, of which directed edges reach only the first
C17_Witness ==
    /\ RepairDone
    /\ num_nodes = 3
    /\ FromFirst = {ordering[1]}
    /\ reachable = G.nodes

\* the two splice attempts of the repair for node against the candidate target
ForwardAttempt(node, target, d) == AddEdge(G, node, target, d)
ReverseAttempt(node, target, d) ==
    AddEdge(RemoveEdge(ForwardAttempt(node, target, d), node, target), target, node, d)

\* an edge of g begins or ends at n
HasIncidentEdge(g, n) == \E e \in EdgeSet(g) : e[1] = n \/ e[2] = n

\* C18: the repair pass never fails.  For every node it has still to visit and
\* every candidate it can try first, the edge node -> candidate or else the edge
\* candidate -> node leaves the graph acyclic, so the splice ends at the first
\* candidate with that edge in the graph and the node inserted; after the pass every
\* node is in the reachable set and, when num_nodes >= 2, has an incident edge, and
\* so has every node of the graph that generation returns.  (Whether an edge closes
\* a cycle does not depend on its duration: the attempts are made with duration 1.)
C18_RepairNeverFails ==
    /\ pc = "repair" =>
          /\ reachable # {}
          /\ \A node \in unreachable :
                /\ \A target \in reachable :
                      \/ IsDirectedAcyclicGraph(ForwardAttempt(node, target, 1))
                      \/ IsDirectedAcyclicGraph(ReverseAttempt(node, target, 1))
                /\ \A s \in Splice(G, node, reachable, 1) :
                      /\ s.inserted
                      /\ HasIncidentEdge(s.graph, node)
                      /\ \E target \in reachable :
                            s.graph = IF IsDirectedAcyclicGraph(ForwardAttempt(node, target, 1))
                                      THEN ForwardAttempt(node, target, 1)
                                      ELSE ReverseAttempt(node, target, 1)
          /\ unreachable = {} =>
                /\ reachable = G.nodes
                /\ num_nodes >= 2 => \A n \in G.nodes : HasIncidentEdge(G, n)
    /\ (Generated /\ num_nodes >= 2) =>
          \A n \in graph.nodes : HasIncidentEdge(graph, n)

\* the repair has a node to visit for which node -> candidate would close a cycle
\* with one of the candidates, so that the reverse attempt decides
C18_Witness ==
    /\ pc = "repair"
    /\ \E node \in unreachable : \E target \in reachable :
          /\ ~IsDirectedAcyclicGraph(ForwardAttempt(node, target, 1))
          /\ IsDirectedAcyclicGraph(ReverseAttempt(node, target, 1))

\* the predecessors of n that have not yet performed their successor-release step
Unreleased(n) == {p \in Predecessors(graph, n) : ~Ended(p)}

\* C19: whenever the lock is free during the life of an executor, for every node n
\* in_degrees[n] is not negative, in_degrees[n] + len(child_inputs[n]) is the number
\* of edges of the graph that enter n, and in_degrees[n] is the number of n's
\* predecessors that have not yet done their successor-release step.
C19_InDegreeAccounting ==
    (HasExecutor /\ lock = Free) =>
       \A n \in graph.nodes :
          /\ in_degrees[n] >= 0
          /\ in_degrees[n] + Len(ChildInputs(n))
                = Cardinality({e \in EdgeSet(graph) : e[2] = n})
          /\ in_degrees[n] = Cardinality(Unreleased(n))

\* the lock is free; of a node's two predecessors one has released it and the
\* other is still inside its strategy call
C19_Witness ==
    /\ HasExecutor
    /\ lock = Free
    /\ \E n \in graph.nodes :
          /\ Cardinality(Predecessors(graph, n)) = 2
          /\ in_degrees[n] = 1
          /\ Len(ChildInputs(n)) = 1
          /\ \E p \in Unreleased(n) : Len(tasks[p]) = 1 /\ tasks[p][1].pc = "executing"

\* C20: when run() has returned (the wait has seen a result for every node and
\* wall_end_time is set) no node task is in progress or waiting to begin:
\* active_tasks is 0, every task made has ended with the lock free, and every
\* node's in-degree counter is 0.
C20_NothingInProgressAtReturn ==
    pc = "returned" =>
       /\ wall.end
       /\ active_tasks = 0
       /\ Active = {}
       /\ lock = Free
       /\ \A n \in graph.nodes :
             /\ in_degrees[n] = 0
             /\ Len(tasks[n]) >= 1
             /\ \A i \in 1..Len(tasks[n]) : tasks[n][i].pc = "done"

\* run() has returned after two nodes, the last to finish, ran side by side
C20_Witness ==
    /\ pc = "returned"
    /\ wall.end
    /\ max_parallelism >= 2
    /\ active_tasks = 0
    /\ \E a, b \in graph.nodes :
          /\ a # b
          /\ Successors(graph, a) = {}
          /\ Successors(graph, b) = {}

====
